---- MODULE Spec2Model ----
(***************************************************************************)
(* A model of build.rs of power-calculator: the resolution of the WASM     *)
(* artifact name from the cargo metadata (calc_wasm_artifact_name), the    *)
(* cross-compilation (rust_to_wasm: the cargo command built from the       *)
(* request, and the build script that command runs in its turn) and the    *)
(* packaging pipeline of main(): derivation stages, the copy-and-hash      *)
(* loop, the metadata queries and the write of BUILD-INFO.md.              *)
(***************************************************************************)
EXTENDS Integers, Sequences, FiniteSets, TLC

(***************************************************************************)
(* Bounds of the model.                                                    *)
(***************************************************************************)
\* targets of a workspace enumerated for the resolution, over all its packages
MaxTargets == 3
\* resolutions repeated on the same metadata
MaxResolves == 2
\* build runs started, one after another
MaxRuns == 2
\* seconds the wall clock may advance
MaxClock == 1
\* failures of the environment (a tool missing or failing, an I/O error)
MaxFaults == 1
\* features named by a compilation request
MaxFeatures == 2
\* build scripts cargo may have running inside one another
MaxDepth == 2

VARIABLES
    metadata,     \* cargo metadata of the workspace (read-only input)
    resolved,     \* results of the resolutions made so far on metadata
    config,       \* the RustToWasmConfig given to rust_to_wasm
    env,          \* the environment: CARGO_HOME and RUSTUP_HOME
    command,      \* the last cargo build command spawned
    stack,        \* the runs waiting for a cargo build that runs a script
    clock,        \* the wall clock, in seconds
    nruns,        \* build runs started so far
    faults,       \* failures of the environment so far
    run,          \* the state of the current run of main()
    manifest_dir, \* the files lib.* of CARGO_MANIFEST_DIR
    out_dir,      \* the files lib.rwasm and lib.cwasm of OUT_DIR
    artifacts     \* per timestamp: the directory artifacts/<arch>/<ts>

vars == <<metadata, resolved, config, env, command, stack, clock, nruns, faults,
          run, manifest_dir, out_dir, artifacts>>

pipeline_vars == <<command, stack, clock, nruns, faults, run, manifest_dir, out_dir,
                   artifacts>>

(***************************************************************************)
(* Cargo metadata.  A target has a name, a kind set and a crate-type set;  *)
(* a package has an id and targets; the workspace names its default        *)
(* members by package id.                                                  *)
(***************************************************************************)
SeqFromTo(S, m, n) == UNION {[1..k -> S] : k \in m..n}

Tgt(n, k, c) == [name |-> n, kind |-> k, crate_types |-> c]

\* the targets the enumerated workspaces are built from: two binaries, a
\* C dynamic library, a plain library and a build script (kind custom-build,
\* crate type bin)
Targets ==
    { Tgt("power_calc", {"bin"}, {"bin"}),
      Tgt("cli", {"bin"}, {"bin"}),
      Tgt("power_calc", {"cdylib"}, {"cdylib"}),
      Tgt("power_calc", {"lib"}, {"lib"}),
      Tgt("build-script-build", {"custom-build"}, {"bin"}) }

\* every sequence of distinct elements of the set S
RECURSIVE Perms(_)
Perms(S) ==
    IF S = {} THEN {<<>>}
    ELSE UNION {{<<x>> \o p : p \in Perms(S \ {x})} : x \in S}

OrderedSubsets(S) == UNION {Perms(T) : T \in SUBSET S}

\* a workspace: packages with ids 1..n (every package has a target), the
\* default members any list of distinct package ids
MkMetadata(tss, dm) ==
    [packages |-> [i \in 1..Len(tss) |-> [id |-> i, targets |-> tss[i]]],
     workspace_members |-> [i \in 1..Len(tss) |-> i],
     workspace_default_members |-> dm]

\* the elements of a set of numbers in increasing order
RECURSIVE Sorted(_)
Sorted(S) ==
    IF S = {} THEN <<>>
    ELSE LET m == CHOOSE x \in S : \A y \in S : x <= y
         IN  <<m>> \o Sorted(S \ {m})

\* the target list ts cut into packages after the positions of cuts
Split(ts, cuts) ==
    LET starts == Sorted({1} \cup {c + 1 : c \in cuts})
        ends == Sorted(cuts \cup {Len(ts)})
    IN  [i \in 1..Len(starts) |-> SubSeq(ts, starts[i], ends[i])]

\* md is a workspace of at most MaxTargets targets, in any number of packages
IsWorkspace(md) ==
    \E ts \in SeqFromTo(Targets, 1, MaxTargets) :
        \E cuts \in SUBSET (1..(Len(ts) - 1)) :
            \E dm \in OrderedSubsets(1..(Cardinality(cuts) + 1)) :
                md = MkMetadata(Split(ts, cuts), dm)

(***************************************************************************)
(* calc_wasm_artifact_name                                                 *)
(***************************************************************************)
\* is_bin with || for &&
is_bin_either(t) == "bin" \in t.kind \/ "bin" \in t.crate_types

is_bin(t) == "bin" \in t.kind /\ "bin" \in t.crate_types

\* is_cdylib looking at the kind only
is_cdylib_by_kind(t) == "cdylib" \in t.kind

is_cdylib(t) == "cdylib" \in t.kind /\ "cdylib" \in t.crate_types

\* Both `bin` and `cdylib` crates produce a `.wasm` file
IsWasmTarget(t) == is_cdylib(t) \/ is_bin(t)

\* the names pushed for the targets of one package, in target order
RECURSIVE TargetNames(_)
TargetNames(targets) ==
    IF targets = <<>> THEN <<>>
    ELSE (IF IsWasmTarget(Head(targets))
            THEN <<Head(targets).name \o ".wasm">>
            ELSE <<>>) \o TargetNames(Tail(targets))

\* metadata.packages.iter().find(|p| p.id == program_crate)
FindPackage(md, id) ==
    LET hits == {i \in 1..Len(md.packages) : md.packages[i].id = id}
    IN  IF hits = {} THEN [found |-> FALSE]
        ELSE [found |-> TRUE,
              package |-> md.packages[CHOOSE i \in hits : \A j \in hits : i <= j]]

\* the outer loop over workspace_default_members: the names collected, or
\* the panic of unwrap_or_else
RECURSIVE CollectNames(_, _)
CollectNames(md, members) ==
    IF members = <<>> THEN [panic |-> FALSE, result |-> <<>>]
    ELSE LET program == FindPackage(md, Head(members))
             rest == CollectNames(md, Tail(members))
         IN  IF ~program.found \/ rest.panic
                THEN [panic |-> TRUE, result |-> <<>>]
                ELSE [panic |-> FALSE,
                      result |-> TargetNames(program.package.targets) \o rest.result]

\* calc_wasm_artifact_name without the check for several names: the first wins
calc_wasm_artifact_name_first_wins(md) ==
    LET c == CollectNames(md, md.workspace_default_members)
    IN  IF c.panic THEN [ok |-> FALSE, err |-> "cannot find package"]
        ELSE IF c.result = <<>> THEN [ok |-> FALSE, err |-> "No WASM artifact found"]
        ELSE [ok |-> TRUE, name |-> Head(c.result)]

calc_wasm_artifact_name(md) ==
    LET c == CollectNames(md, md.workspace_default_members)
    IN  IF c.panic THEN [ok |-> FALSE, err |-> "cannot find package"]
        ELSE IF c.result = <<>> THEN [ok |-> FALSE, err |-> "No WASM artifact found"]
        ELSE IF Len(c.result) > 1
            THEN [ok |-> FALSE, err |-> "Multiple WASM artifacts found"]
        ELSE [ok |-> TRUE, name |-> Head(c.result)]

(***************************************************************************)
(* The file system and the run of main().  A file is its content, 0 when   *)
(* it does not exist; the content of an artifact is the id of the run      *)
(* whose primary artifact it was derived from.                             *)
(***************************************************************************)
WasmTriple == "wasm32-unknown-unknown"

HostTriple == "x86_64-unknown-linux-gnu"

ManifestFiles == {"lib.wasm", "lib.wat", "lib.stripped.wasm", "lib.stripped.wat"}

OutFiles == {"lib.rwasm", "lib.cwasm"}

\* the pairs of the copy loop with lib.wat before lib.wasm
PairsWatFirst ==
    << [dir |-> "manifest_dir", name |-> "lib.wat"],
       [dir |-> "manifest_dir", name |-> "lib.wasm"],
       [dir |-> "manifest_dir", name |-> "lib.stripped.wasm"],
       [dir |-> "manifest_dir", name |-> "lib.stripped.wat"],
       [dir |-> "out_dir", name |-> "lib.rwasm"],
       [dir |-> "out_dir", name |-> "lib.cwasm"] >>

\* the (src, name) pairs of the copy loop, in its order
Pairs ==
    << [dir |-> "manifest_dir", name |-> "lib.wasm"],
       [dir |-> "manifest_dir", name |-> "lib.wat"],
       [dir |-> "manifest_dir", name |-> "lib.stripped.wasm"],
       [dir |-> "manifest_dir", name |-> "lib.stripped.wat"],
       [dir |-> "out_dir", name |-> "lib.rwasm"],
       [dir |-> "out_dir", name |-> "lib.cwasm"] >>

ArtifactNames == {Pairs[i].name : i \in 1..Len(Pairs)}

NoFile == [present |-> FALSE, lines |-> <<>>]

EmptyDir ==
    [exists |-> FALSE, creators |-> {}, files |-> [n \in ArtifactNames |-> 0],
     build_info |-> NoFile]

IdleRun ==
    [pc |-> "idle", id |-> 0, ts |-> 0, target |-> "", name |-> "", i |-> 0,
     info |-> <<>>, did |-> {}, failed |-> {}, err |-> ""]

\* the fields of a run: pc the statement it is at, id its number, ts the
\* timestamp of its output directory, target the value of TARGET, name the
\* name of the primary artifact, i the index of the copy loop, info the
\* provenance record; did the operations it has started, failed the failures
\* of the environment it has met, err the message of its panic

Line(k, a, v) == [k |-> k, a |-> a, v |-> v]

\* sha256::digest over the bytes of a file
digest(bytes) == <<"sha256-of", bytes>>

(***************************************************************************)
(* rust_to_wasm: the compilation request and the command built from it     *)
(***************************************************************************)
\* CARGO_MANIFEST_DIR and metadata.target_directory
ManifestDir == "/src/power-calculator"

TargetDirectory == "/src/power-calculator/target"

FeatureNames == {"std", "debug-print", "wasmtime"}

StackSizes == {65536, 131072}

\* every RustToWasmConfig of the model
Configs ==
    [features : SeqFromTo(FeatureNames, 0, MaxFeatures),
     no_default_features : BOOLEAN,
     stack_size : StackSizes]

\* RustToWasmConfig::default() of fluentbase_build, its values not known
\* here: no features, either setting of no_default_features
DefaultConfigs ==
    {c \in Configs : c.features = <<>> /\ c.stack_size = 131072}

\* the values of env::var("CARGO_HOME").unwrap_or_default() and of
\* env::var("RUSTUP_HOME").unwrap_or_default(): empty when the variable is
\* not set
Envs ==
    [CARGO_HOME : {"", "/home/ci/.cargo"}, RUSTUP_HOME : {"", "/home/ci/.rustup"}]

DefaultEnv == [CARGO_HOME |-> "/home/ci/.cargo", RUSTUP_HOME |-> "/home/ci/.rustup"]

\* the separator of CARGO_ENCODED_RUSTFLAGS, the byte 0x1f
US == "\\x1f"

\* [String]::join: the pieces with sep between them; the string is kept as
\* the sequence of what is concatenated
RECURSIVE join(_, _)
join(pieces, sep) ==
    IF Len(pieces) = 0 THEN <<>>
    ELSE IF Len(pieces) = 1 THEN <<pieces[1]>>
    ELSE <<pieces[1], sep>> \o join(Tail(pieces), sep)

\* cargo_args with --features pushed whatever the feature list
cargo_args_always_features(c) ==
    << "build", "--target", WasmTriple, "--release",
       "--manifest-path", ManifestDir \o "/Cargo.toml",
       "--target-dir", TargetDirectory \o "/target2",
       "--color=always", "--locked" >>
    \o (IF c.no_default_features THEN <<"--no-default-features">> ELSE <<>>)
    \o <<"--features">> \o c.features

\* lines 30-48: the arguments of cargo
cargo_args(c) ==
    << "build", "--target", WasmTriple, "--release",
       "--manifest-path", ManifestDir \o "/Cargo.toml",
       "--target-dir", TargetDirectory \o "/target2",
       "--color=always", "--locked" >>
    \o (IF c.no_default_features THEN <<"--no-default-features">> ELSE <<>>)
    \o (IF c.features # <<>> THEN <<"--features">> \o c.features ELSE <<>>)

\* lines 50-65: the compiler flags
flags(c, e) ==
    << "-C", "link-arg=-zstack-size=" \o ToString(c.stack_size),
       "-C", "panic=abort",
       "-C", "target-feature=+bulk-memory",
       "-C", "codegen-units=1",
       "-C", "incremental=false",
       "--remap-path-prefix=" \o ManifestDir \o "=/project",
       "--remap-path-prefix=" \o e.CARGO_HOME \o "=/cargo",
       "--remap-path-prefix=" \o e.RUSTUP_HOME \o "=/rustup" >>

\* lines 66-70: the command cargo with its arguments and the flags joined
\* into CARGO_ENCODED_RUSTFLAGS
cargo_build(c, e) ==
    [program |-> "cargo", args |-> cargo_args(c),
     CARGO_ENCODED_RUSTFLAGS |-> join(flags(c, e), US)]

NoCommand == [program |-> "", args |-> <<>>, CARGO_ENCODED_RUSTFLAGS |-> <<>>]

InitPipeline ==
    /\ command = NoCommand
    /\ stack = <<>>
    /\ clock = 0
    /\ nruns = 0
    /\ faults = 0
    /\ run = IdleRun
    /\ manifest_dir = [f \in ManifestFiles |-> 0]
    /\ out_dir = [f \in OutFiles |-> 0]
    /\ artifacts = [t \in 0..MaxClock |-> EmptyDir]

\* the next state of the run
Set(r) == run' = r

\* the run r did the operation op and goes to pc
Did(r, op, pc) == [r EXCEPT !.pc = pc, !.did = @ \cup {op}]

\* the operation op of the run r met the failure e of the environment: the
\* run goes on at pc
Failed(r, op, e, pc) ==
    [r EXCEPT !.pc = pc, !.did = @ \cup {op}, !.failed = @ \cup {e}]

\* the run panics in the operation op, with the message e
Panic(r, op, e) == [r EXCEPT !.pc = "panicked", !.did = @ \cup {op}, !.err = e]

\* the run panics in the operation op on the failure e of the environment
EnvPanic(r, op, e) == [Panic(r, op, e) EXCEPT !.failed = @ \cup {e}]

\* one more failure of the environment
Fault ==
    /\ faults < MaxFaults
    /\ faults' = faults + 1

(***************************************************************************)
(* main(): the TARGET check and the output directory                       *)
(***************************************************************************)
\* main_entry without the check of TARGET
main_entry_without_target_check(r, t) ==
    /\ clock' = t
    /\ \/ /\ Set(Did([r EXCEPT !.ts = t], "create_dir_all", "rust_to_wasm"))
          /\ artifacts' = [artifacts EXCEPT ![t].exists = TRUE,
                                            ![t].creators = @ \cup {r.id}]
          /\ UNCHANGED faults
       \/ /\ Fault
          /\ Set(EnvPanic([r EXCEPT !.ts = t], "create_dir_all",
                          "create_dir_all: io error"))
          /\ UNCHANGED artifacts

\* lines 137-145, for the process r at the second t: with TARGET the wasm
\* triple the script returns; otherwise the directory artifacts/<arch>/<ts>
\* is created, ts the current second
main_entry(r, t) ==
    IF r.target = WasmTriple
      THEN /\ Set([r EXCEPT !.pc = "returned"])
           /\ UNCHANGED <<clock, faults, artifacts>>
      ELSE /\ clock' = t
           /\ \/ /\ Set(Did([r EXCEPT !.ts = t], "create_dir_all", "rust_to_wasm"))
                 /\ artifacts' = [artifacts EXCEPT ![t].exists = TRUE,
                                                   ![t].creators = @ \cup {r.id}]
                 /\ UNCHANGED faults
              \/ /\ Fault
                 /\ Set(EnvPanic([r EXCEPT !.ts = t], "create_dir_all",
                                 "create_dir_all: io error"))
                 /\ UNCHANGED artifacts

\* a build of the package is started, with some TARGET
Start ==
    /\ run.pc = "idle"
    /\ nruns < MaxRuns
    /\ nruns' = nruns + 1
    /\ \E target \in {WasmTriple, HostTriple}, t \in clock..MaxClock :
          main_entry([IdleRun EXCEPT !.id = nruns + 1, !.target = target], t)
    /\ UNCHANGED <<metadata, resolved, config, env, command, stack, manifest_dir,
                   out_dir>>

\* the cargo build spawned by the run compiles the package for the wasm
\* triple and runs its build script, this same main(), with that TARGET; the
\* run waits
BuildScript ==
    /\ run.pc = "cargo build"
    /\ Len(stack) < MaxDepth
    /\ stack' = Append(stack, run)
    /\ \E t \in clock..MaxClock :
          main_entry([IdleRun EXCEPT !.target = WasmTriple], t)
    /\ UNCHANGED <<metadata, resolved, config, env, command, nruns, manifest_dir,
                   out_dir>>

(***************************************************************************)
(* rust_to_wasm                                                            *)
(***************************************************************************)
\* lines 19-72: the command is built from the request and spawned; a spawn
\* failure panics in expect
rust_to_wasm ==
    /\ run.pc = "rust_to_wasm"
    /\ command' = cargo_build(config, env)
    /\ \/ /\ Set(Did(run, "cargo build", "cargo build"))
          /\ UNCHANGED faults
       \/ /\ Fault
          /\ Set(EnvPanic(run, "cargo build", "cargo build: spawn"))
    /\ UNCHANGED <<metadata, resolved, config, env, stack, clock, nruns, manifest_dir,
                   out_dir, artifacts>>

\* CargoBuild without the check of status.success()
CargoBuildIgnoringStatus ==
    /\ run.pc = "cargo build"
    /\ \/ /\ Set(Did(run, "cargo build", "calc_wasm_artifact_name"))
          /\ UNCHANGED faults
       \/ /\ Fault
          /\ Set(Failed(run, "cargo build", "cargo build: exit status",
                        "calc_wasm_artifact_name"))
    /\ UNCHANGED <<metadata, resolved, config, env, command, stack, clock, nruns,
                   manifest_dir, out_dir, artifacts>>

\* lines 71-79: cargo build ends; a non-zero exit status panics
CargoBuild ==
    /\ run.pc = "cargo build"
    /\ \/ /\ Set(Did(run, "cargo build", "calc_wasm_artifact_name"))
          /\ UNCHANGED faults
       \/ /\ Fault
          /\ Set(EnvPanic(run, "cargo build", "cargo build: exit status"))
    /\ UNCHANGED <<metadata, resolved, config, env, command, stack, clock, nruns,
                   manifest_dir, out_dir, artifacts>>

\* lines 81-87: the artifact name is resolved after the build
ResolveName ==
    /\ run.pc = "calc_wasm_artifact_name"
    /\ LET res == calc_wasm_artifact_name(metadata)
       IN  IF res.ok
             THEN Set([Did(run, "calc_wasm_artifact_name", "copy_wasm_and_wat")
                            EXCEPT !.name = res.name])
             ELSE Set(Panic(run, "calc_wasm_artifact_name", res.err))
    /\ UNCHANGED <<metadata, resolved, config, env, command, stack, clock, nruns, faults, manifest_dir, out_dir,
                   artifacts>>

(***************************************************************************)
(* main(): the derivation stages                                           *)
(***************************************************************************)
\* line 149, fluentbase_build::copy_wasm_and_wat: the primary artifact is
\* copied to lib.wasm of the manifest directory and disassembled to lib.wat,
\* the disassembly best-effort
copy_wasm_and_wat ==
    /\ run.pc = "copy_wasm_and_wat"
    /\ \/ /\ Set(Did(run, "copy_wasm_and_wat", "wasm_to_rwasm"))
          /\ manifest_dir' = [manifest_dir EXCEPT !["lib.wasm"] = run.id,
                                                  !["lib.wat"] = run.id]
          /\ UNCHANGED faults
       \/ /\ Fault
          /\ Set(Failed(run, "copy_wasm_and_wat", "wasm2wat lib.wasm",
                           "wasm_to_rwasm"))
          /\ manifest_dir' = [manifest_dir EXCEPT !["lib.wasm"] = run.id]
    /\ UNCHANGED <<metadata, resolved, config, env, command, stack, clock, nruns, out_dir, artifacts>>

\* wasm_to_rwasm without the fs::write of the bytecode
wasm_to_rwasm_without_write ==
    /\ run.pc = "wasm_to_rwasm"
    /\ \/ /\ Set(Did(run, "wasm_to_rwasm", "wasm_to_wasmtime"))
          /\ UNCHANGED <<faults, out_dir>>
       \/ /\ Fault
          /\ Set(EnvPanic(run, "wasm_to_rwasm", "compile_wasm_to_rwasm"))
          /\ UNCHANGED out_dir
    /\ UNCHANGED <<metadata, resolved, config, env, command, stack, clock, nruns, manifest_dir, artifacts>>

\* lines 128-134: the bytecode is compiled and written to OUT_DIR/lib.rwasm;
\* every failure panics
wasm_to_rwasm ==
    /\ run.pc = "wasm_to_rwasm"
    /\ \/ /\ Set(Did(run, "wasm_to_rwasm", "wasm_to_wasmtime"))
          /\ out_dir' = [out_dir EXCEPT !["lib.rwasm"] = run.id]
          /\ UNCHANGED faults
       \/ /\ Fault
          /\ Set(EnvPanic(run, "wasm_to_rwasm", "compile_wasm_to_rwasm"))
          /\ UNCHANGED out_dir
    /\ UNCHANGED <<metadata, resolved, config, env, command, stack, clock, nruns, manifest_dir, artifacts>>

\* line 151, fluentbase_build::wasm_to_wasmtime: the precompiled form is
\* written to cwasm_path, or the stage fails and writes nothing
wasm_to_wasmtime ==
    /\ run.pc = "wasm_to_wasmtime"
    /\ \/ /\ Set(Did(run, "wasm_to_wasmtime", "generate_build_output_file"))
          /\ out_dir' = [out_dir EXCEPT !["lib.cwasm"] = run.id]
          /\ UNCHANGED faults
       \/ /\ Fault
          /\ Set(Failed(run, "wasm_to_wasmtime", "wasm_to_wasmtime",
                           "generate_build_output_file"))
          /\ UNCHANGED out_dir
    /\ UNCHANGED <<metadata, resolved, config, env, command, stack, clock, nruns, manifest_dir, artifacts>>

\* line 152, fluentbase_build::generate_build_output_file: writes none of
\* the files of the model
generate_build_output_file ==
    /\ run.pc = "generate_build_output_file"
    /\ Set(Did(run, "generate_build_output_file", "strip"))
    /\ UNCHANGED <<metadata, resolved, config, env, command, stack, clock, nruns, faults, manifest_dir, out_dir,
                   artifacts>>

\* lines 155-159: wasm-tools strip -a lib.wasm -o lib.stripped.wasm; the
\* exit status is dropped, a spawn failure panics in expect
Strip ==
    /\ run.pc = "strip"
    /\ \/ /\ manifest_dir["lib.wasm"] # 0
          /\ Set(Did(run, "strip", "wasm2wat"))
          /\ manifest_dir' =
                [manifest_dir EXCEPT !["lib.stripped.wasm"] = manifest_dir["lib.wasm"]]
          /\ UNCHANGED faults
       \/ /\ manifest_dir["lib.wasm"] = 0
          /\ Set(Failed(run, "strip", "wasm-tools: exit status", "wasm2wat"))
          /\ UNCHANGED <<faults, manifest_dir>>
       \/ /\ Fault
          /\ Set(Failed(run, "strip", "wasm-tools: exit status", "wasm2wat"))
          /\ UNCHANGED manifest_dir
       \/ /\ Fault
          /\ Set(EnvPanic(run, "strip", "wasm-tools: spawn"))
          /\ UNCHANGED manifest_dir
    /\ UNCHANGED <<metadata, resolved, config, env, command, stack, clock, nruns, out_dir, artifacts>>

\* lines 161-165: wasm2wat lib.stripped.wasm -o lib.stripped.wat; the exit
\* status is dropped, a spawn failure panics in expect
Wasm2Wat ==
    /\ run.pc = "wasm2wat"
    /\ \/ /\ manifest_dir["lib.stripped.wasm"] # 0
          /\ Set([Did(run, "wasm2wat", "record") EXCEPT !.i = 1])
          /\ manifest_dir' =
                [manifest_dir EXCEPT
                    !["lib.stripped.wat"] = manifest_dir["lib.stripped.wasm"]]
          /\ UNCHANGED faults
       \/ /\ manifest_dir["lib.stripped.wasm"] = 0
          /\ Set([Failed(run, "wasm2wat", "wasm2wat: exit status", "record")
                        EXCEPT !.i = 1])
          /\ UNCHANGED <<faults, manifest_dir>>
       \/ /\ Fault
          /\ Set([Failed(run, "wasm2wat", "wasm2wat: exit status", "record")
                        EXCEPT !.i = 1])
          /\ UNCHANGED manifest_dir
       \/ /\ Fault
          /\ Set(EnvPanic(run, "wasm2wat", "wasm2wat: spawn"))
          /\ UNCHANGED manifest_dir
    /\ UNCHANGED <<metadata, resolved, config, env, command, stack, clock, nruns, out_dir, artifacts>>

(***************************************************************************)
(* main(): the copy-and-hash loop                                          *)
(***************************************************************************)
\* the content of the source of a pair; 0 when src.exists() is false
Src(pair) ==
    IF pair.dir = "manifest_dir" THEN manifest_dir[pair.name] ELSE out_dir[pair.name]

\* where the run r goes after the pair i
AfterPair(r) == IF r.i = Len(Pairs) THEN [r EXCEPT !.pc = "git"] ELSE [r EXCEPT !.i = @ + 1]

\* Record without the check of src.exists(): the copy of a missing source
\* panics in unwrap
RecordWithoutExistsCheck ==
    /\ run.pc = "record"
    /\ LET r == run
           pair == Pairs[r.i]
           op == "copy " \o pair.name
       IN  \/ /\ Src(pair) = 0
              /\ Set(Panic(r, op, "copy"))
              /\ UNCHANGED <<faults, artifacts>>
           \/ /\ Src(pair) # 0
              /\ Set(AfterPair([r EXCEPT
                    !.did = @ \cup {op},
                    !.info = Append(@, Line("sha256", pair.name, digest(Src(pair))))]))
              /\ artifacts' = [artifacts EXCEPT ![r.ts].files[pair.name] = Src(pair)]
              /\ UNCHANGED faults
    /\ UNCHANGED <<metadata, resolved, config, env, command, stack, clock, nruns, manifest_dir, out_dir>>

\* lines 169-185, one iteration: an existing source is copied into the
\* output directory (a failure panics in unwrap) and the copy read back and
\* hashed; a copy that cannot be read back gets no line
Record ==
    /\ run.pc = "record"
    /\ LET r == run
           pair == Pairs[r.i]
           op == "copy " \o pair.name
       IN  \/ /\ Src(pair) = 0
              /\ Set(AfterPair(r))
              /\ UNCHANGED <<faults, artifacts>>
           \/ /\ Src(pair) # 0
              /\ Set(AfterPair([r EXCEPT
                    !.did = @ \cup {op},
                    !.info = Append(@, Line("sha256", pair.name, digest(Src(pair))))]))
              /\ artifacts' = [artifacts EXCEPT ![r.ts].files[pair.name] = Src(pair)]
              /\ UNCHANGED faults
           \/ /\ Src(pair) # 0
              /\ Fault
              /\ Set(AfterPair([r EXCEPT !.did = @ \cup {op},
                                            !.failed = @ \cup {"read " \o pair.name}]))
              /\ artifacts' = [artifacts EXCEPT ![r.ts].files[pair.name] = Src(pair)]
           \/ /\ Src(pair) # 0
              /\ Fault
              /\ Set(EnvPanic(r, op, "copy"))
              /\ UNCHANGED artifacts
    /\ UNCHANGED <<metadata, resolved, config, env, command, stack, clock, nruns, manifest_dir, out_dir>>

(***************************************************************************)
(* main(): the metadata lines and BUILD-INFO.md                            *)
(***************************************************************************)
\* Git assigning the commit line to info instead of appending it
GitOverwritingInfo ==
    /\ run.pc = "git"
    /\ \/ /\ Set([Did(run, "git", "rustc")
                        EXCEPT !.info = <<Line("commit", "", "HEAD")>>])
          /\ UNCHANGED faults
       \/ /\ Fault
          /\ \E e \in {"git: spawn", "git: exit status"} :
                Set(Failed(run, "git", e, "rustc"))
    /\ UNCHANGED <<metadata, resolved, config, env, command, stack, clock, nruns, manifest_dir, out_dir, artifacts>>

\* lines 188-195: git rev-parse HEAD; the line only on a zero exit status
Git ==
    /\ run.pc = "git"
    /\ \/ /\ Set([Did(run, "git", "rustc")
                        EXCEPT !.info = Append(@, Line("commit", "", "HEAD"))])
          /\ UNCHANGED faults
       \/ /\ Fault
          /\ \E e \in {"git: spawn", "git: exit status"} :
                Set(Failed(run, "git", e, "rustc"))
    /\ UNCHANGED <<metadata, resolved, config, env, command, stack, clock, nruns, manifest_dir, out_dir, artifacts>>

\* lines 196-198: rustc --version; the line whenever the process ran
Rustc ==
    /\ run.pc = "rustc"
    /\ \/ /\ Set([Did(run, "rustc", "cargo")
                        EXCEPT !.info = Append(@, Line("rustc", "", "rustc 1.x"))])
          /\ UNCHANGED faults
       \/ /\ Fault
          /\ Set([Failed(run, "rustc", "rustc: exit status", "cargo")
                        EXCEPT !.info = Append(@, Line("rustc", "", ""))])
       \/ /\ Fault
          /\ Set(Failed(run, "rustc", "rustc: spawn", "cargo"))
    /\ UNCHANGED <<metadata, resolved, config, env, command, stack, clock, nruns, manifest_dir, out_dir, artifacts>>

\* lines 199-201: cargo --version; the line whenever the process ran
CargoVersion ==
    /\ run.pc = "cargo"
    /\ \/ /\ Set([Did(run, "cargo --version", "target")
                        EXCEPT !.info = Append(@, Line("cargo", "", "cargo 1.x"))])
          /\ UNCHANGED faults
       \/ /\ Fault
          /\ Set([Failed(run, "cargo --version", "cargo: exit status", "target")
                        EXCEPT !.info = Append(@, Line("cargo", "", ""))])
       \/ /\ Fault
          /\ Set(Failed(run, "cargo --version", "cargo: spawn", "target"))
    /\ UNCHANGED <<metadata, resolved, config, env, command, stack, clock, nruns, manifest_dir, out_dir, artifacts>>

\* line 202: the value of TARGET
TargetLine ==
    /\ run.pc = "target"
    /\ Set([run EXCEPT !.pc = "build_time",
                             !.info = Append(@, Line("target", "", run.target))])
    /\ UNCHANGED <<metadata, resolved, config, env, command, stack, clock, nruns, faults, manifest_dir, out_dir,
                   artifacts>>

\* line 203: the current time
BuildTime ==
    /\ run.pc = "build_time"
    /\ \E t \in clock..MaxClock :
          /\ clock' = t
          /\ Set([run EXCEPT !.pc = "write",
                                   !.info = Append(@, Line("build_time", "", t))])
    /\ UNCHANGED <<metadata, resolved, config, env, command, stack, nruns, faults, manifest_dir, out_dir, artifacts>>

\* lines 206-208: BUILD-INFO.md is created and info written to it; a
\* failure of either panics in unwrap, the second leaving the file empty
WriteBuildInfo ==
    /\ run.pc = "write"
    /\ LET r == run
       IN  \/ /\ Set(Did(r, "write BUILD-INFO.md", "done"))
              /\ artifacts' = [artifacts EXCEPT ![r.ts].build_info =
                                  [present |-> TRUE, lines |-> r.info]]
              /\ UNCHANGED faults
           \/ /\ Fault
              /\ Set(EnvPanic(r, "write BUILD-INFO.md", "File::create"))
              /\ UNCHANGED artifacts
           \/ /\ Fault
              /\ Set(EnvPanic(r, "write BUILD-INFO.md", "write_all"))
              /\ artifacts' = [artifacts EXCEPT ![r.ts].build_info =
                                  [present |-> TRUE, lines |-> <<>>]]
    /\ UNCHANGED <<metadata, resolved, config, env, command, stack, clock, nruns, manifest_dir, out_dir>>

\* the process of a run that completed, returned or panicked ends; the run
\* that waited for it, if any, goes on
Exit ==
    /\ run.pc \in {"done", "panicked", "returned"}
    /\ IF stack = <<>>
         THEN Set(IdleRun) /\ UNCHANGED stack
         ELSE /\ Set(stack[Len(stack)])
              /\ stack' = SubSeq(stack, 1, Len(stack) - 1)
    /\ UNCHANGED <<metadata, resolved, config, env, command, clock, nruns, faults,
                   manifest_dir, out_dir, artifacts>>

(***************************************************************************)
(* The build runs of one workspace.                                        *)
(***************************************************************************)
\* a library only; one binary and the build script; two binaries
PipelineWorkspaces ==
    { MkMetadata(<< <<Tgt("power_calc", {"lib"}, {"lib"})>> >>, <<1>>),
      MkMetadata(<< <<Tgt("power_calc", {"bin"}, {"bin"}),
                      Tgt("build-script-build", {"custom-build"}, {"bin"})>> >>, <<1>>),
      MkMetadata(<< <<Tgt("power_calc", {"bin"}, {"bin"}),
                      Tgt("cli", {"bin"}, {"bin"})>> >>, <<1>>) }

Init ==
    /\ metadata \in PipelineWorkspaces
    /\ resolved = <<>>
    /\ config \in DefaultConfigs
    /\ env = DefaultEnv
    /\ InitPipeline

Next ==
    \/ Start
    \/ rust_to_wasm
    \/ BuildScript
    \/ CargoBuild
    \/ ResolveName
    \/ copy_wasm_and_wat
    \/ wasm_to_rwasm
    \/ wasm_to_wasmtime
    \/ generate_build_output_file
    \/ Strip
    \/ Wasm2Wat
    \/ Record
    \/ Git
    \/ Rustc
    \/ CargoVersion
    \/ TargetLine
    \/ BuildTime
    \/ WriteBuildInfo
    \/ Exit

Spec == Init /\ [][Next]_vars

(***************************************************************************)
(* What the specification says of the resolution.                          *)
(***************************************************************************)
\* a target is eligible when its kind and its crate type agree on binary or
\* on C dynamic library
Eligible(t) ==
    \/ "bin" \in t.kind /\ "bin" \in t.crate_types
    \/ "cdylib" \in t.kind /\ "cdylib" \in t.crate_types

DefaultMembers(md) ==
    {md.workspace_default_members[k] : k \in 1..Len(md.workspace_default_members)}

\* the eligible targets of the default members, each by package and position
EligibleTargets(md) ==
    {pt \in UNION {{<<i, j>> : j \in 1..Len(md.packages[i].targets)} :
                      i \in 1..Len(md.packages)} :
        /\ md.packages[pt[1]].id \in DefaultMembers(md)
        /\ Eligible(md.packages[pt[1]].targets[pt[2]])}

TargetAt(md, pt) == md.packages[pt[1]].targets[pt[2]]

ConfigErrors == {"No WASM artifact found", "Multiple WASM artifacts found"}

DerivationStages ==
    {"copy_wasm_and_wat", "wasm_to_rwasm", "wasm_to_wasmtime",
     "generate_build_output_file", "strip", "wasm2wat"}

Copies == {"copy " \o n : n \in ArtifactNames}

\* the run is past the TARGET check of main()
Running == run.pc \notin {"idle", "returned"}

\* C1: a workspace with zero or with two or more eligible targets fails
\* with the configuration error, and cargo build is never invoked in the run
C1_ConfigErrorBeforeCompilation ==
    (Running /\ Cardinality(EligibleTargets(metadata)) # 1) =>
        /\ "cargo build" \notin run.did
        /\ run.pc # "done"
        /\ (run.pc = "panicked" /\ run.err # "create_dir_all: io error")
              => run.err \in ConfigErrors

\* the failures of the stripping tool and of the disassembler of the
\* stripped binary
StripFailures ==
    {"wasm-tools: spawn", "wasm-tools: exit status", "wasm2wat: spawn",
     "wasm2wat: exit status"}

ShaLines(lines, n) ==
    {k \in 1..Len(lines) : lines[k].k = "sha256" /\ lines[k].a = n}

\* BUILD-INFO.md of the output directory of the run
BuildInfo == artifacts[run.ts].build_info

\* C2: a run whose only failures are of the stripping tool or of the
\* disassembler of the stripped binary (the tool missing included) is not
\* aborted: it completes and writes BUILD-INFO.md, only without the files
\* the failed tool would have written and without their sha256 lines
C2_StripFailureNeverAborts ==
    (run.failed # {} /\ run.failed \subseteq StripFailures) =>
        /\ run.pc # "panicked"
        /\ run.pc = "done" =>
              /\ BuildInfo.present /\ BuildInfo.lines = run.info
              /\ run.failed \cap {"wasm-tools: spawn", "wasm-tools: exit status"} # {}
                    => ShaLines(run.info, "lib.stripped.wasm") = {}
              /\ ShaLines(run.info, "lib.stripped.wat") = {}

\* C3: after a successful run BUILD-INFO.md has the line
\* target: wasm32-unknown-unknown and ends with the build_time line
C3_TargetLineIsWasm ==
    run.pc = "done" =>
        /\ BuildInfo.present
        /\ \E k \in 1..Len(BuildInfo.lines) :
              BuildInfo.lines[k].k = "target" /\ BuildInfo.lines[k].v = WasmTriple
        /\ BuildInfo.lines[Len(BuildInfo.lines)].k = "build_time"

\* C4: with exactly one eligible target among the default members every
\* resolution returns <that target's name>.wasm, whatever ineligible targets
\* and packages outside the default members the workspace has besides
C4_UniqueTargetResolved ==
    Cardinality(EligibleTargets(metadata)) = 1 =>
        \A k \in 1..Len(resolved) :
            /\ resolved[k].ok
            /\ \A pt \in EligibleTargets(metadata) :
                  resolved[k].name = TargetAt(metadata, pt).name \o ".wasm"

\* one eligible target, a second package outside the default members with
\* an eligible target of its own, an ineligible target beside the eligible
\* one, and two resolutions made
C4_Witness ==
    /\ Cardinality(EligibleTargets(metadata)) = 1
    /\ Len(resolved) = 2
    /\ \E i \in 1..Len(metadata.packages) :
          /\ metadata.packages[i].id \notin DefaultMembers(metadata)
          /\ \E j \in 1..Len(metadata.packages[i].targets) :
                Eligible(metadata.packages[i].targets[j])
    /\ \E pt \in EligibleTargets(metadata) :
          \E j \in 1..Len(metadata.packages[pt[1]].targets) :
              ~Eligible(metadata.packages[pt[1]].targets[j])

\* C5: with no eligible target the resolution fails with the no-target
\* error, with two or more (in one package or over several default members)
\* with the ambiguous-target error, and returns no name in either case
C5_NoSilentChoice ==
    \A k \in 1..Len(resolved) :
        /\ Cardinality(EligibleTargets(metadata)) = 0 =>
              ~resolved[k].ok /\ resolved[k].err = "No WASM artifact found"
        /\ Cardinality(EligibleTargets(metadata)) >= 2 =>
              ~resolved[k].ok /\ resolved[k].err = "Multiple WASM artifacts found"

\* two eligible targets, in two packages of the default members, resolved
C5_Witness ==
    /\ Len(resolved) >= 1
    /\ Cardinality(EligibleTargets(metadata)) = 2
    /\ Cardinality({pt[1] : pt \in EligibleTargets(metadata)}) = 2

\* C6: when cargo build exits with a non-zero status the run is aborted: no
\* derivation stage is started, no artifact is copied and BUILD-INFO.md is
\* not written
C6_CompilerFailureAborts ==
    "cargo build: exit status" \in run.failed =>
        /\ run.pc = "panicked"
        /\ run.did \cap (DerivationStages \cup Copies \cup {"write BUILD-INFO.md"}) = {}
        /\ run.info = <<>>

\* a run aborted by the exit status of cargo build
C6_Witness ==
    /\ run.pc = "panicked"
    /\ run.err = "cargo build: exit status"
    /\ "cargo build" \in run.did

\* C7: at the end of a completed run every artifact file of the output
\* directory has exactly one sha256 line in BUILD-INFO.md, and every sha256
\* line names a file of the directory
C7_ProvenanceComplete ==
    run.pc = "done" =>
        /\ \A n \in ArtifactNames :
              artifacts[run.ts].files[n] # 0 =>
                  Cardinality(ShaLines(BuildInfo.lines, n)) = 1
        /\ \A k \in 1..Len(BuildInfo.lines) :
              BuildInfo.lines[k].k = "sha256" =>
                  artifacts[run.ts].files[BuildInfo.lines[k].a] # 0

\* the AOT compilation of the run failed and there is no lib.cwasm
AotFailed == "wasm_to_wasmtime" \in run.failed /\ out_dir["lib.cwasm"] = 0

\* C8: a run whose AOT compilation fails and leaves no lib.cwasm is not
\* aborted by it: with no other failure it never panics, the recorder makes
\* no copy and no line of lib.cwasm, and at the end BUILD-INFO.md is written
\* with the copy and the sha256 line of every other artifact that exists
C8_AotFailureSkipped ==
    AotFailed =>
        /\ "copy lib.cwasm" \notin run.did
        /\ ShaLines(run.info, "lib.cwasm") = {}
        /\ run.failed = {"wasm_to_wasmtime"} => run.pc # "panicked"
        /\ run.pc = "done" =>
              /\ BuildInfo.present /\ BuildInfo.lines = run.info
              /\ run.failed = {"wasm_to_wasmtime"} =>
                    \A i \in 1..Len(Pairs) :
                        Src(Pairs[i]) # 0 =>
                            /\ artifacts[run.ts].files[Pairs[i].name] = Src(Pairs[i])
                            /\ Cardinality(ShaLines(BuildInfo.lines, Pairs[i].name)) = 1

\* a completed run whose AOT compilation failed, with other artifacts packed
C8_Witness ==
    /\ AotFailed
    /\ run.pc = "done"
    /\ BuildInfo.present
    /\ ShaLines(BuildInfo.lines, "lib.wasm") # {}
    /\ ShaLines(BuildInfo.lines, "lib.rwasm") # {}

\* C9: no two runs use the same output directory
C9_DirectoryNeverReused ==
    \A t \in 0..MaxClock : Cardinality(artifacts[t].creators) <= 1

\* the place of a line in the grammar of BUILD-INFO.md
Rank(line) ==
    CASE line.k = "sha256" /\ line.a = "lib.wasm" -> 1
      [] line.k = "sha256" /\ line.a = "lib.wat" -> 2
      [] line.k = "sha256" /\ line.a = "lib.stripped.wasm" -> 3
      [] line.k = "sha256" /\ line.a = "lib.stripped.wat" -> 4
      [] line.k = "sha256" /\ line.a = "lib.rwasm" -> 5
      [] line.k = "sha256" /\ line.a = "lib.cwasm" -> 6
      [] line.k = "commit" -> 7
      [] line.k = "rustc" -> 8
      [] line.k = "cargo" -> 9
      [] line.k = "target" -> 10
      [] line.k = "build_time" -> 11
      [] OTHER -> 0

\* the lines are in the order of the grammar, none twice
InOrder(lines) ==
    /\ \A k \in 1..Len(lines) : Rank(lines[k]) > 0
    /\ \A k \in 1..(Len(lines) - 1) : Rank(lines[k]) < Rank(lines[k + 1])

\* in order, and ending with the target line and the build_time line
Grammatical(lines) ==
    /\ InOrder(lines)
    /\ Len(lines) >= 2
    /\ lines[Len(lines) - 1].k = "target"
    /\ lines[Len(lines)].k = "build_time"

\* C10: the lines of BUILD-INFO.md are in the order sha256 lines (lib.wasm,
\* lib.wat, lib.stripped.wasm, lib.stripped.wat, lib.rwasm, lib.cwasm),
\* commit, rustc, cargo, none of them twice, then one target line and one
\* build_time line, the last line.  The record is in this order while it is
\* built; a BUILD-INFO.md whose write failed after File::create is empty
C10_LineOrder ==
    /\ InOrder(run.info)
    /\ run.pc = "done" => BuildInfo.present /\ Grammatical(BuildInfo.lines)
    /\ \A t \in 0..MaxClock :
          (artifacts[t].build_info.present /\ artifacts[t].build_info.lines # <<>>)
              => Grammatical(artifacts[t].build_info.lines)

\* a completed run with every optional line and every artifact
C10_Witness ==
    /\ run.pc = "done"
    /\ BuildInfo.present
    /\ Len(BuildInfo.lines) = 11

(***************************************************************************)
(* What the specification says of the writing of BUILD-INFO.md.            *)
(***************************************************************************)
IsPrefix(s, t) == Len(s) =< Len(t) /\ SubSeq(t, 1, Len(s)) = s

Queries == {"git", "rustc", "cargo --version"}

\* one step of a run: the record only grows, BUILD-INFO.md changes only in
\* the step that leaves the statement after the last copy and the last
\* query, a run that wrote it touches its directory no more, and a completed
\* run leaves in it the record as it was at the end
C11_Step ==
    /\ (run.id # 0 /\ run'.id = run.id) => IsPrefix(run.info, run'.info)
    /\ run'.pc \in {"idle", "returned"} => run'.info = <<>>
    /\ \A t \in 0..MaxClock :
          artifacts'[t].build_info # artifacts[t].build_info
              => /\ t = run.ts
                 /\ run.pc = "write"
                 /\ run.i = Len(Pairs)
                 /\ Queries \subseteq run.did
                 /\ "write BUILD-INFO.md" \notin run.did
                 /\ run'.pc \in {"done", "panicked"}
    /\ "write BUILD-INFO.md" \in run.did => artifacts' = artifacts
    /\ run'.pc = "done"
          => /\ "write BUILD-INFO.md" \in run'.did
             /\ artifacts'[run'.ts].build_info =
                    [present |-> TRUE, lines |-> run'.info]

\* C11: the provenance record is appended to only while a run is in
\* progress, and BUILD-INFO.md is written once per completed run, after every
\* artifact copy and every metadata query; no run writes it before its last
\* copy or writes it twice
C11_WrittenOnceAtTheEnd == [][C11_Step]_vars

\* a completed run that copied artifacts, ran the three queries and wrote
\* its record
C11_Witness ==
    /\ run.pc = "done"
    /\ "copy lib.cwasm" \in run.did
    /\ Queries \subseteq run.did
    /\ BuildInfo = [present |-> TRUE, lines |-> run.info]
    /\ Len(run.info) > 6

\* C12: after a successful run on a workspace with one eligible target the
\* output directory of the run contains at least lib.wasm, lib.rwasm and
\* BUILD-INFO.md
C12_MinimalPackage ==
    (run.pc = "done" /\ Cardinality(EligibleTargets(metadata)) = 1)
        => /\ artifacts[run.ts].exists
           /\ artifacts[run.ts].files["lib.wasm"] # 0
           /\ artifacts[run.ts].files["lib.rwasm"] # 0
           /\ BuildInfo.present

\* a successful run whose optional stages all failed or were skipped: the
\* directory holds the minimal package and the failed stage's file is absent
C12_Witness ==
    /\ run.pc = "done"
    /\ Cardinality(EligibleTargets(metadata)) = 1
    /\ run.failed # {}
    /\ artifacts[run.ts].files["lib.wasm"] = run.id
    /\ artifacts[run.ts].files["lib.rwasm"] = run.id
    /\ \E n \in ArtifactNames : artifacts[run.ts].files[n] = 0
    /\ BuildInfo.present

(***************************************************************************)
(* What the specification says of the compiler invocation.                 *)
(***************************************************************************)
\* the strings that were joined with sep into s
split(s, sep) == [k \in 1..((Len(s) + 1) \div 2) |-> s[2 * k - 1]]

Has(q, x) == \E k \in 1..Len(q) : q[k] = x

HasPair(q, x, y) == \E k \in 1..(Len(q) - 1) : q[k] = x /\ q[k + 1] = y

Remappings ==
    { "--remap-path-prefix=" \o ManifestDir \o "=/project",
      "--remap-path-prefix=" \o env.CARGO_HOME \o "=/cargo",
      "--remap-path-prefix=" \o env.RUSTUP_HOME \o "=/rustup" }

\* C13: for every compilation request the compiler invocation carries the
\* target wasm32-unknown-unknown, release mode, --locked and the canonical
\* flags (stack size, panic=abort, +bulk-memory, codegen-units=1,
\* incremental=false, three path-prefix remappings); it carries
\* --no-default-features iff the request disables default features, and
\* --features followed by the feature list iff that list is not empty
C13_CanonicalInvocation ==
    command # NoCommand =>
        LET a == command.args
            j == command.CARGO_ENCODED_RUSTFLAGS
            f == split(j, US)
        IN  /\ command.program = "cargo"
            /\ a[1] = "build"
            /\ HasPair(a, "--target", "wasm32-unknown-unknown")
            /\ Has(a, "--release")
            /\ Has(a, "--locked")
            /\ \A k \in 1..Len(j) : (k % 2 = 0) => j[k] = US
            /\ HasPair(f, "-C", "link-arg=-zstack-size=" \o ToString(config.stack_size))
            /\ HasPair(f, "-C", "panic=abort")
            /\ HasPair(f, "-C", "target-feature=+bulk-memory")
            /\ HasPair(f, "-C", "codegen-units=1")
            /\ HasPair(f, "-C", "incremental=false")
            /\ Cardinality({k \in 1..Len(f) : f[k] \in Remappings}) = 3
            /\ Has(a, "--no-default-features") <=> config.no_default_features
            /\ Has(a, "--features") <=> config.features # <<>>
            /\ config.features # <<>> =>
                  \E k \in 1..Len(a) :
                      /\ a[k] = "--features"
                      /\ SubSeq(a, k + 1, Len(a)) = config.features

\* an invocation for a request with two features and no default features,
\* with CARGO_HOME not set
C13_Witness ==
    /\ command # NoCommand
    /\ config.no_default_features
    /\ Len(config.features) = 2
    /\ config.stack_size = 65536
    /\ env.CARGO_HOME = ""

(***************************************************************************)
(* What the specification says of the metadata queries.                    *)
(***************************************************************************)
\* per query: the operation, the key of its line and its two failures
QueryTable ==
    { [op |-> "git", key |-> "commit",
       failures |-> {"git: spawn", "git: exit status"}],
      [op |-> "rustc", key |-> "rustc",
       failures |-> {"rustc: spawn", "rustc: exit status"}],
      [op |-> "cargo --version", key |-> "cargo",
       failures |-> {"cargo: spawn", "cargo: exit status"}] }

QueryFailures == UNION {q.failures : q \in QueryTable}

HasLine(lines, key) == \E k \in 1..Len(lines) : lines[k].k = key

\* C15: each of the three metadata queries is best-effort on its own: when
\* it cannot be started or exits with a non-zero status the run continues
\* and its line (commit, rustc or cargo) is absent from BUILD-INFO.md; a
\* line is present only when its query succeeded
C15_QueriesBestEffort ==
    /\ (run.failed # {} /\ run.failed \subseteq QueryFailures) => run.pc # "panicked"
    /\ \A q \in QueryTable :
          /\ HasLine(run.info, q.key) => (q.op \in run.did /\ run.failed \cap q.failures = {})
          /\ (run.pc = "done" /\ run.failed \cap q.failures # {})
                => ~HasLine(BuildInfo.lines, q.key)

(***************************************************************************)
(* What the specification says of the output directory at the end of a run *)
(* and of the origin of what is in it.                                     *)
(***************************************************************************)
\* BUILD-INFO.md of the directory d has a sha256 line for each of its files
Covered(d) ==
    /\ d.build_info.present
    /\ \A n \in ArtifactNames :
          d.files[n] # 0 => ShaLines(d.build_info.lines, n) # {}

\* C16: the output directory is never left partially populated: at the end
\* of every run, completed or aborted at any stage, it either contains
\* BUILD-INFO.md covering every artifact file in it or contains no artifact
\* file at all
C16_NeverPartiallyPopulated ==
    (run.pc \in {"done", "panicked"} /\ "create_dir_all" \in run.did)
        => \/ \A n \in ArtifactNames : artifacts[run.ts].files[n] = 0
           \/ Covered(artifacts[run.ts])

\* C17: every artifact copied into the output directory of a run, and every
\* digest of its record, comes from the primary artifact of that same run:
\* a run whose stripping or disassembly fails packages no lib.stripped.wasm,
\* lib.stripped.wat, lib.wat or lib.wasm left in the project directory by an
\* earlier run.  Stated for the runs in which the disassembly inside
\* copy_wasm_and_wat did not fail and whose output directory is theirs alone
C17_NoStaleArtifact ==
    ("wasm2wat lib.wasm" \notin run.failed /\ artifacts[run.ts].creators = {run.id}) =>
        /\ \A n \in ArtifactNames :
              ("copy " \o n \in run.did /\ run.pc # "panicked")
                  => artifacts[run.ts].files[n] = run.id
        /\ \A k \in 1..Len(run.info) :
              run.info[k].k = "sha256" => run.info[k].v = digest(run.id)

(***************************************************************************)
(* What the specification says of the build script run by its own build.   *)
(***************************************************************************)
\* what a process can create, spawn or write
Effects == <<clock, faults, command, manifest_dir, out_dir, artifacts>>

\* one step: at most one run waits for the build it spawned; a script
\* started with TARGET the wasm triple, by a build or by the cargo build of
\* a run, has returned at once with nothing done; the only step of such a
\* script is its end, which gives the hand back to the run that waited
C18_Step ==
    /\ Len(stack') =< 1
    /\ (run'.target = WasmTriple /\ run.pc \in {"idle", "cargo build"})
          => /\ run'.pc = "returned"
             /\ run'.did = {}
             /\ run'.info = <<>>
             /\ UNCHANGED Effects
    /\ run.target = WasmTriple
          => /\ run.pc = "returned"
             /\ run' = (IF stack = <<>> THEN IdleRun ELSE stack[Len(stack)])
             /\ Len(stack') =< Len(stack)
             /\ UNCHANGED Effects

\* C18: the build does not recurse without bound: run with TARGET the wasm
\* triple, as inside the compilation it spawns, the build script returns at
\* once, creating no output directory, spawning no process and writing no
\* file, so that the nesting depth is at most one
C18_NoUnboundedRecursion == [][C18_Step]_vars

\* the build script run by the cargo build of a run has returned; the run
\* waits
C18_Witness ==
    /\ Len(stack) = 1
    /\ stack[1].pc = "cargo build"
    /\ stack[1].target = HostTriple
    /\ command = cargo_build(config, env)
    /\ run.target = WasmTriple
    /\ run.pc = "returned"

(***************************************************************************)
(* What the specification says of the eligibility of one target.           *)
(***************************************************************************)
\* the target whose kinds and crate types vary, and whether it is the only
\* target of its package
Probe == metadata.packages[1].targets[1]

Alone == Len(metadata.packages[1].targets) = 1

\* the target is counted by the resolution res: alone it is the artifact,
\* next to the binary cli it makes the artifact ambiguous
Counted(res) ==
    IF Alone THEN res.ok /\ res.name = Probe.name \o ".wasm"
    ELSE ~res.ok /\ res.err = "Multiple WASM artifacts found"

NotCounted(res) ==
    IF Alone THEN ~res.ok /\ res.err = "No WASM artifact found"
    ELSE res.ok /\ res.name = "cli.wasm"

\* C14: a target is counted as eligible iff its kind set and its crate-type
\* set both contain bin, or both contain cdylib; a target whose kind and
\* crate type name different categories is never counted, and a target that
\* satisfies both conjunctions is counted once
C14_KindAndCrateTypeAgree ==
    \A k \in 1..Len(resolved) :
        LET res == resolved[k]
        IN  /\ Eligible(Probe) => Counted(res)
            /\ ~Eligible(Probe) => NotCounted(res)
            /\ (Probe.kind = {"bin"} /\ "bin" \notin Probe.crate_types)
                  => NotCounted(res)
            /\ (Probe.kind = {"cdylib"} /\ Probe.crate_types = {"bin"})
                  => NotCounted(res)
            /\ ({"bin", "cdylib"} \subseteq (Probe.kind \cap Probe.crate_types) /\ Alone)
                  => res.ok

\* a target of kinds bin and cdylib and of crate types bin and cdylib, alone
\* in its package, resolved: it is the artifact
C14_Witness ==
    /\ Len(resolved) > 0
    /\ Alone
    /\ {"bin", "cdylib"} \subseteq (Probe.kind \cap Probe.crate_types)
    /\ resolved[1] = [ok |-> TRUE, name |-> "power_calc.wasm"]

(***************************************************************************)
(* The resolution alone: any workspace, resolved repeatedly.               *)
(***************************************************************************)
InitResolve ==
    /\ IsWorkspace(metadata)
    /\ resolved = <<>>
    /\ config \in DefaultConfigs
    /\ env = DefaultEnv
    /\ InitPipeline

Resolve ==
    /\ Len(resolved) < MaxResolves
    /\ resolved' = Append(resolved, calc_wasm_artifact_name(metadata))
    /\ UNCHANGED <<metadata, config, env, pipeline_vars>>

NextResolve == Resolve

SpecResolve == InitResolve /\ [][NextResolve]_vars

(***************************************************************************)
(* The invocation alone: any request, in any environment.                  *)
(***************************************************************************)
InitInvoke ==
    /\ metadata \in PipelineWorkspaces
    /\ resolved = <<>>
    /\ config \in Configs
    /\ env \in Envs
    /\ InitPipeline

NextInvoke ==
    \/ Start
    \/ rust_to_wasm
    \/ Exit

SpecInvoke == InitInvoke /\ [][NextInvoke]_vars

(***************************************************************************)
(* The resolution of one target of any kinds and crate types, alone in its *)
(* package or next to a binary.                                            *)
(***************************************************************************)
Kinds == {"bin", "cdylib", "lib", "custom-build"}

CrateTypes == {"bin", "cdylib", "lib"}

InitTarget ==
    /\ \E k \in SUBSET Kinds, c \in SUBSET CrateTypes :
          \/ metadata = MkMetadata(<< <<Tgt("power_calc", k, c)>> >>, <<1>>)
          \/ metadata = MkMetadata(<< <<Tgt("power_calc", k, c),
                                        Tgt("cli", {"bin"}, {"bin"})>> >>, <<1>>)
    /\ resolved = <<>>
    /\ config \in DefaultConfigs
    /\ env = DefaultEnv
    /\ InitPipeline

SpecTarget == InitTarget /\ [][NextResolve]_vars

====
